---- MODULE Spec2Model ----
(***************************************************************************)
(* Model of the App component of src/index.tsx: the recording and          *)
(* translation controller.  React state and refs are the variables; every  *)
(* click handler and every asynchronous continuation (getUserMedia         *)
(* settling, the recorder's stop task, the FileReader and the remote call  *)
(* settling) is one action.  A click handler runs against the latest       *)
(* render: React flushes the state updates of a click before the next      *)
(* event is dispatched, so the buttons' guards read the current state.     *)
(***************************************************************************)
EXTENDS Integers, Sequences, FiniteSets, TLC

\* ---------------------------------------------------------------- bounds
\* Number of startRecording invocations explored (one session id each).
MaxSessions == 3
\* Number of translateAudio invocations explored (one call id each).
MaxSubmits == 2

Sessions == 1..MaxSessions
Calls == 1..MaxSubmits

\* ------------------------------------------------------------- constants
\* JavaScript null, for the state cells typed `T | null`.
Null == [kind |-> "null"]
NoError == "null"
\* setError(...) of startRecording's catch block.
MicError == "mic-permission-message"
\* setError(...) of translateAudio's catch block.
ProcError == "processing-message"

\* The bodies response.text can carry (undefined/empty included).
ResponseTexts ==
  { "",
    "not json",
    "null",
    "{}",
    "{transcription:T}",
    "{translation:U}",
    "{transcription:,translation:}",
    "{transcription:T,translation:U}" }

VARIABLES
  isRecording,       \* useState(false)
  isProcessing,      \* useState(false)
  audioUrl,          \* useState<string | null>(null)
  audioBlob,         \* useState<Blob | null>(null)
  result,            \* useState<{transcription, translation} | null>(null)
  error,             \* useState<string | null>(null)
  mediaRecorderRef,  \* useRef<MediaRecorder | null>(null): 0 is null
  chunksRef,         \* useRef<BlobPart[]>([])
  startPc,           \* per startRecording invocation: where it stands
  stream,            \* per session: the MediaStream getUserMedia returned
  recorder,          \* per session: the MediaRecorder built on the stream
  callPc,            \* per translateAudio invocation: where it stands
  callBlob,          \* per translateAudio invocation: the audioBlob it closed over
  callData           \* per translateAudio invocation: base64Audio

vars == << isRecording, isProcessing, audioUrl, audioBlob, result, error,
           mediaRecorderRef, chunksRef, startPc, stream, recorder,
           callPc, callBlob, callData >>

uiVars == << isRecording, isProcessing, audioUrl, audioBlob, result, error >>
captureVars == << mediaRecorderRef, chunksRef, startPc, stream, recorder >>
callVars == << callPc, callBlob, callData >>

\* ------------------------------------------------------------- helpers
\* new Blob(parts, {type: 'audio/webm'}) finalized by session s's onstop.
NewBlob(s, parts) == [kind |-> "blob", session |-> s, type |-> "audio/webm", parts |-> parts]

\* URL.createObjectURL(blob): a fresh reference for that blob.
CreateObjectURL(blob) == [kind |-> "url", of |-> blob.session]

\* reader.readAsDataURL(blob): "data:<type>;base64,<payload>", as its two
\* comma-separated pieces.
ReadAsDataURL(blob) == << "data:" \o blob.type \o ";base64", blob.parts >>

\* blobToBase64: base64String.split(',')[1]
blobToBase64(blob) == ReadAsDataURL(blob)[2]

\* JSON.parse on the bodies of ResponseTexts: the parsed value, or a
\* SyntaxError.
JSONparse(text) ==
  CASE text = "null" -> [ok |-> TRUE, value |-> Null]
    [] text = "{}" -> [ok |-> TRUE, value |-> [kind |-> "object"]]
    [] text = "{transcription:T}" ->
         [ok |-> TRUE, value |-> [kind |-> "object", transcription |-> "T"]]
    [] text = "{translation:U}" ->
         [ok |-> TRUE, value |-> [kind |-> "object", translation |-> "U"]]
    [] text = "{transcription:,translation:}" ->
         [ok |-> TRUE, value |-> [kind |-> "object", transcription |-> "", translation |-> ""]]
    [] text = "{transcription:T,translation:U}" ->
         [ok |-> TRUE, value |-> [kind |-> "object", transcription |-> "T", translation |-> "U"]]
    [] OTHER -> [ok |-> FALSE, value |-> Null]

\* The next unused session / call id (0 when the bound is exhausted).
FreeSessions == { s \in Sessions : startPc[s] = "idle" }
FreeCalls == { c \in Calls : callPc[c] = "idle" }
Min(S) == CHOOSE x \in S : \A y \in S : x <= y

\* ---------------------------------------------------------------- Init
Init ==
  /\ isRecording = FALSE
  /\ isProcessing = FALSE
  /\ audioUrl = Null
  /\ audioBlob = Null
  /\ result = Null
  /\ error = NoError
  /\ mediaRecorderRef = 0
  /\ chunksRef = << >>
  /\ startPc = [s \in Sessions |-> "idle"]
  /\ stream = [s \in Sessions |-> "none"]
  /\ recorder = [s \in Sessions |-> "none"]
  /\ callPc = [c \in Calls |-> "idle"]
  /\ callBlob = [c \in Calls |-> Null]
  /\ callData = [c \in Calls |-> << >>]

\* ------------------------------------------------------ startRecording
\* startRecording up to its await: the four resets, the buffer swap and the
\* getUserMedia request.
StartRecordingBegin ==
  /\ FreeSessions # {}
  /\ error' = NoError
  /\ result' = Null
  /\ audioUrl' = Null
  /\ audioBlob' = Null
  /\ chunksRef' = << >>
  /\ startPc' = [startPc EXCEPT ![Min(FreeSessions)] = "awaitGum"]
  /\ UNCHANGED << isRecording, isProcessing, mediaRecorderRef, stream, recorder >>
  /\ UNCHANGED callVars

\* The round button while it shows the microphone.
RecordButtonStarts == result = Null /\ ~isRecording /\ ~isProcessing

ClickRecord ==
  /\ RecordButtonStarts
  /\ StartRecordingBegin

\* The small re-record button next to the audio player.
ReRecordButtonShown == result = Null /\ ~isRecording /\ audioBlob # Null

ClickReRecord ==
  /\ ReRecordButtonShown
  /\ StartRecordingBegin

\* GumReject with a catch block that only logs: no message is set.
GumReject_Silent(s) ==
  /\ startPc[s] = "awaitGum"
  /\ startPc' = [startPc EXCEPT ![s] = "failed"]
  /\ UNCHANGED << isRecording, isProcessing, audioUrl, audioBlob, result, error >>
  /\ UNCHANGED << mediaRecorderRef, chunksRef, stream, recorder >>
  /\ UNCHANGED callVars

\* getUserMedia rejects: the catch block.
GumReject(s) ==
  /\ startPc[s] = "awaitGum"
  /\ startPc' = [startPc EXCEPT ![s] = "failed"]
  /\ error' = MicError
  /\ UNCHANGED << isRecording, isProcessing, audioUrl, audioBlob, result >>
  /\ UNCHANGED << mediaRecorderRef, chunksRef, stream, recorder >>
  /\ UNCHANGED callVars

\* getUserMedia resolves, then new MediaRecorder(stream) throws.
GumGrantCtorThrows(s) ==
  /\ startPc[s] = "awaitGum"
  /\ startPc' = [startPc EXCEPT ![s] = "failed"]
  /\ stream' = [stream EXCEPT ![s] = "live"]
  /\ error' = MicError
  /\ UNCHANGED << isRecording, isProcessing, audioUrl, audioBlob, result >>
  /\ UNCHANGED << mediaRecorderRef, chunksRef, recorder >>
  /\ UNCHANGED callVars

\* getUserMedia resolves, the recorder is built and stored, start() throws.
GumGrantStartThrows(s) ==
  /\ startPc[s] = "awaitGum"
  /\ startPc' = [startPc EXCEPT ![s] = "failed"]
  /\ stream' = [stream EXCEPT ![s] = "live"]
  /\ recorder' = [recorder EXCEPT ![s] = "inactive"]
  /\ mediaRecorderRef' = s
  /\ error' = MicError
  /\ UNCHANGED << isRecording, isProcessing, audioUrl, audioBlob, result >>
  /\ UNCHANGED << chunksRef >>
  /\ UNCHANGED callVars

\* getUserMedia resolves and the recorder starts.
GumGrantStarted(s) ==
  /\ startPc[s] = "awaitGum"
  /\ startPc' = [startPc EXCEPT ![s] = "done"]
  /\ stream' = [stream EXCEPT ![s] = "live"]
  /\ recorder' = [recorder EXCEPT ![s] = "recording"]
  /\ mediaRecorderRef' = s
  /\ isRecording' = TRUE
  /\ UNCHANGED << isProcessing, audioUrl, audioBlob, result, error >>
  /\ UNCHANGED << chunksRef >>
  /\ UNCHANGED callVars

\* ------------------------------------------------------- stopRecording
\* MediaRecorder.stop(): nothing on an inactive recorder; otherwise the
\* recorder goes inactive and its dataavailable/stop task is queued.
RecorderStop(rec, s) ==
  IF rec[s] = "recording" THEN [rec EXCEPT ![s] = "stopping"] ELSE rec

stopRecording ==
  IF mediaRecorderRef # 0 /\ isRecording
  THEN /\ recorder' = RecorderStop(recorder, mediaRecorderRef)
       /\ isRecording' = FALSE
  ELSE UNCHANGED << recorder, isRecording >>

\* The round button while it shows the square.
RecordButtonStops == result = Null /\ isRecording /\ ~isProcessing

ClickStop ==
  /\ RecordButtonStops
  /\ stopRecording
  /\ UNCHANGED << isProcessing, audioUrl, audioBlob, result, error >>
  /\ UNCHANGED << mediaRecorderRef, chunksRef, startPc, stream >>
  /\ UNCHANGED callVars

\* ondataavailable: the chunk is pushed when it is not empty.
OnDataAvailable(chunks, s, size) ==
  IF size > 0 THEN Append(chunks, s) ELSE chunks

\* The task queued by stop(): dataavailable with the session's data, then
\* onstop, which builds the blob from the shared buffer, publishes it and
\* stops the tracks of its own stream.
RecorderStopTask(s, size) ==
  /\ recorder[s] = "stopping"
  /\ recorder' = [recorder EXCEPT ![s] = "stopped"]
  /\ chunksRef' = OnDataAvailable(chunksRef, s, size)
  /\ audioBlob' = NewBlob(s, chunksRef')
  /\ audioUrl' = CreateObjectURL(audioBlob')
  /\ stream' = [stream EXCEPT ![s] = "stopped"]
  /\ UNCHANGED << isRecording, isProcessing, result, error >>
  /\ UNCHANGED << mediaRecorderRef, startPc >>
  /\ UNCHANGED callVars

\* ------------------------------------------------------ translateAudio
\* SubmitButtonEnabled without disabled={isProcessing}.
SubmitButtonEnabled_NotDisabled ==
  result = Null /\ audioBlob # Null /\ ~isRecording

\* The submit button is rendered, and enabled.
SubmitButtonEnabled ==
  result = Null /\ audioBlob # Null /\ ~isRecording /\ ~isProcessing

\* translateAudio up to its first await.
ClickSubmit ==
  /\ SubmitButtonEnabled
  /\ FreeCalls # {}
  /\ audioBlob # Null
  /\ isProcessing' = TRUE
  /\ error' = NoError
  /\ callPc' = [callPc EXCEPT ![Min(FreeCalls)] = "encoding"]
  /\ callBlob' = [callBlob EXCEPT ![Min(FreeCalls)] = audioBlob]
  /\ UNCHANGED << callData >>
  /\ UNCHANGED << isRecording, audioUrl, audioBlob, result >>
  /\ UNCHANGED captureVars

\* catch + finally of translateAudio.
TranslateCatch(c) ==
  /\ callPc' = [callPc EXCEPT ![c] = "failed"]
  /\ error' = ProcError
  /\ isProcessing' = FALSE
  /\ UNCHANGED << callBlob, callData >>
  /\ UNCHANGED << isRecording, audioUrl, audioBlob, result >>
  /\ UNCHANGED captureVars

\* blobToBase64 resolves; generateContent is issued.
EncodeResolve(c) ==
  /\ callPc[c] = "encoding"
  /\ callPc' = [callPc EXCEPT ![c] = "requesting"]
  /\ callData' = [callData EXCEPT ![c] = blobToBase64(callBlob[c])]
  /\ UNCHANGED << callBlob >>
  /\ UNCHANGED uiVars
  /\ UNCHANGED captureVars

\* blobToBase64 rejects (reader.onerror).
EncodeReject(c) ==
  /\ callPc[c] = "encoding"
  /\ TranslateCatch(c)

\* generateContent rejects (network, authentication, quota).
RemoteReject(c) ==
  /\ callPc[c] = "requesting"
  /\ TranslateCatch(c)

\* generateContent resolves with response.text = text.
RemoteRespond(c, text) ==
  /\ callPc[c] = "requesting"
  /\ IF text # ""
     THEN IF JSONparse(text).ok
          THEN /\ result' = JSONparse(text).value
               /\ callPc' = [callPc EXCEPT ![c] = "done"]
               /\ isProcessing' = FALSE
               /\ UNCHANGED << error, callBlob, callData >>
               /\ UNCHANGED << isRecording, audioUrl, audioBlob >>
               /\ UNCHANGED captureVars
          ELSE TranslateCatch(c)
     ELSE /\ callPc' = [callPc EXCEPT ![c] = "done"]
          /\ isProcessing' = FALSE
          /\ UNCHANGED << result, error, callBlob, callData >>
          /\ UNCHANGED << isRecording, audioUrl, audioBlob >>
          /\ UNCHANGED captureVars

\* --------------------------------------------------------------- reset
reset ==
  /\ result' = Null
  /\ audioBlob' = Null
  /\ audioUrl' = Null
  /\ error' = NoError

\* The reset button belongs to the result view.
ResetButtonShown == result # Null

ClickReset ==
  /\ ResetButtonShown
  /\ reset
  /\ UNCHANGED << isRecording, isProcessing >>
  /\ UNCHANGED captureVars
  /\ UNCHANGED callVars

\* ---------------------------------------------------------------- Next
Next ==
  \/ ClickRecord
  \/ ClickReRecord
  \/ \E s \in Sessions : GumReject(s)
  \/ \E s \in Sessions : GumGrantCtorThrows(s)
  \/ \E s \in Sessions : GumGrantStartThrows(s)
  \/ \E s \in Sessions : GumGrantStarted(s)
  \/ ClickStop
  \/ \E s \in Sessions : \E size \in {0, 1} : RecorderStopTask(s, size)
  \/ ClickSubmit
  \/ \E c \in Calls : EncodeResolve(c)
  \/ \E c \in Calls : EncodeReject(c)
  \/ \E c \in Calls : RemoteReject(c)
  \/ \E c \in Calls : \E text \in ResponseTexts : RemoteRespond(c, text)
  \/ ClickReset

Spec == Init /\ [][Next]_vars

\* ============================================================== claims
InFlight == { c \in Calls : callPc[c] \in {"encoding", "requesting"} }
HeldStreams == { s \in Sessions : stream[s] = "live" }
ActiveRecorders == { s \in Sessions : recorder[s] = "recording" }
PendingGrants == { s \in Sessions : startPc[s] = "awaitGum" }
PendingStops == { s \in Sessions : recorder[s] = "stopping" }
Idle == ~isRecording /\ ~isProcessing /\ audioBlob = Null /\ result = Null

\* C1: at most one translateAudio invocation is in flight, a call in flight
\* is always covered by isProcessing, and the submit action is not enabled
\* while isProcessing is true.
NoDoubleSubmission ==
  /\ Cardinality(InFlight) <= 1
  /\ (InFlight # {} => isProcessing)
  /\ (isProcessing => ~ENABLED ClickSubmit)

\* C1 witness: a call is in flight while the submit button is rendered (a
\* capture is held, nothing is recording) and another call id is free.
SubmitWhileProcessingCase ==
  /\ InFlight # {}
  /\ FreeCalls # {}
  /\ result = Null /\ audioBlob # Null /\ ~isRecording

\* C2 (as claimed): while a recording is in progress neither an audioBlob
\* nor a result is held.
RecordingHoldsNothing ==
  isRecording => (audioBlob = Null /\ result = Null)

\* C3 (as claimed): at most one acquired, unreleased stream and at most one
\* active MediaRecorder.
OneCaptureSession ==
  /\ Cardinality(HeldStreams) <= 1
  /\ Cardinality(ActiveRecorders) <= 1

\* C4 (as claimed): a session that is over, because its startRecording ended
\* in the catch block or because its stop task has run, no longer holds its
\* stream.
MicrophoneReleasedOnExit ==
  \A s \in Sessions :
    (startPc[s] = "failed" \/ recorder[s] = "stopped") => stream[s] # "live"

\* C5 (as claimed): a held result has both fields, each a non-empty string.
HasField(v, f) == f \in DOMAIN v /\ v[f] # ""
ResultHasBothFields ==
  result # Null => (HasField(result, "transcription") /\ HasField(result, "translation"))

\* C6 (as claimed): a step that leaves Processing ends with a result or
\* with an error message held.
NoOutcomeSwallowed ==
  [][(isProcessing /\ ~isProcessing') => (result' # Null \/ error' # NoError)]_vars

\* C7 (as claimed): a step in which a call fails ends with the processing
\* message, isProcessing false and the submitted audioBlob still held.
FailurePreservesCapture ==
  [][\A c \in Calls :
       (c \in InFlight /\ callPc'[c] = "failed")
         => (error' = ProcError /\ ~isProcessing' /\ audioBlob' = callBlob[c])]_vars

\* C8 (as claimed): reset fires only with no call in flight, and the state
\* after it holds no audioBlob, audioUrl, result or error and is neither
\* recording nor processing.
ResetLandsInIdle ==
  [][ClickReset =>
       /\ InFlight = {}
       /\ audioBlob' = Null /\ audioUrl' = Null
       /\ result' = Null /\ error' = NoError
       /\ ~isRecording' /\ ~isProcessing']_vars

SessionBlobExact ==
  [][\A s \in Sessions : \A size \in {0, 1} :
       RecorderStopTask(s, size)
         => audioBlob'.parts = OnDataAvailable(<< >>, s, size)]_vars
====
